---- MODULE Spec2Model ----
(***************************************************************************)
(* A model of the Sigen cloud API client (sigenpy/sigen_api.py).           *)
(*                                                                         *)
(* A Python str is a sequence of one-character strings, so that iterating  *)
(* a str, indexing it and decoding it as JSON are computed and not         *)
(* assumed.  Every Python/JSON value is a pair <<tag, payload>>: x[1] is   *)
(* the type tag and x[2] the payload (a sequence of characters for a str,  *)
(* a sequence of values for a list, a function from keys to values for a   *)
(* dict).                                                                  *)
(***************************************************************************)
EXTENDS Integers, Sequences, FiniteSets, TLC

(***************************************************************************)
(* Bounds of the model.                                                    *)
(***************************************************************************)
MaxSystems == 2
MaxDevices == 3
MaxDays == 3
MaxRuns == 2

(***************************************************************************)
(* Python values.                                                          *)
(***************************************************************************)
None == <<"null", 0>>
Str(s) == <<"str", s>>
Num(n) == <<"num", n>>
Bool(b) == <<"bool", b>>
List(xs) == <<"list", xs>>
Dict(f) == <<"dict", f>>

EmptyDict == Dict(<<>>)
EmptyList == List(<<>>)
EmptyStr == Str(<<>>)

\* bool(x): the truth value Python's `if x`, `x or y` and `not x` use.
Truthy(x) ==
    CASE x[1] = "null" -> FALSE
      [] x[1] = "bool" -> x[2]
      [] x[1] = "num" -> x[2] # 0
      [] x[1] = "str" -> Len(x[2]) > 0
      [] x[1] = "list" -> Len(x[2]) > 0
      [] x[1] = "dict" -> DOMAIN x[2] # {}

\* Mutant of Or: the second operand wins when it is true.
OrCachedFirst(x, y) == IF Truthy(y) THEN y ELSE x

\* x or y
Or(x, y) == IF Truthy(x) THEN x ELSE y

\* dict.get(key, default) on a dict value.
DictGet(d, key, default) == IF key \in DOMAIN d[2] THEN d[2][key] ELSE default

\* d[key] = value on a dict payload.
DictSet(f, key, value) ==
    [k \in (DOMAIN f) \cup {key} |-> IF k = key THEN value ELSE f[k]]

\* The one-character strings a str yields when iterated or indexed.
Chars(s) == [i \in 1..Len(s[2]) |-> Str(<<s[2][i]>>)]

(***************************************************************************)
(* Outcome of a call: a normal return with a value, or a raised exception. *)
(***************************************************************************)
Return(x) == [kind |-> "return", exc |-> "", value |-> x]
Raise(e) == [kind |-> "raise", exc |-> e, value |-> None]

\* A local name: K applied to the value x (`name = x` followed by K).
With(x, K(_)) == K(x)

(***************************************************************************)
(* Literal strings of the source and of the wire format.                   *)
(***************************************************************************)
s_accessToken == <<"a", "c", "c", "e", "s", "s", "T", "o", "k", "e", "n">>
s_systemId == <<"s", "y", "s", "t", "e", "m", "I", "d">>
s_deviceType == <<"d", "e", "v", "i", "c", "e", "T", "y", "p", "e">>
s_serialNumber == <<"s", "e", "r", "i", "a", "l", "N", "u", "m", "b", "e", "r">>
s_Inverter == <<"I", "n", "v", "e", "r", "t", "e", "r">>
s_data == <<"d", "a", "t", "a">>
s_null == <<"n", "u", "l", "l">>
s_true == <<"t", "r", "u", "e">>
s_false == <<"f", "a", "l", "s", "e">>

(***************************************************************************)
(* json.loads: a recursive-descent decoder over the characters of a str.   *)
(* A decode result is [ok, val, pos]: pos is the index after the value.    *)
(* The texts of the model use no signs, fractions or exponents.            *)
(***************************************************************************)
Digits == {"0", "1", "2", "3", "4", "5", "6", "7", "8", "9"}

DigitVal(c) ==
    CASE c = "0" -> 0 [] c = "1" -> 1 [] c = "2" -> 2 [] c = "3" -> 3
      [] c = "4" -> 4 [] c = "5" -> 5 [] c = "6" -> 6 [] c = "7" -> 7
      [] c = "8" -> 8 [] c = "9" -> 9

DecodeFail == [ok |-> FALSE, val |-> None, pos |-> 0]
DecodeOk(x, p) == [ok |-> TRUE, val |-> x, pos |-> p]

RECURSIVE SkipWs(_, _)
SkipWs(s, i) == IF i <= Len(s) /\ s[i] = " " THEN SkipWs(s, i + 1) ELSE i

\* A string literal whose content starts at i: the str it denotes and the
\* index after its closing quote.  The escapes \" \\ and \/ are decoded; the
\* texts of the model use no other escape.
RECURSIVE DecodeString(_, _, _)
DecodeString(s, i, acc) ==
    IF i > Len(s) THEN DecodeFail
    ELSE IF s[i] = "\"" THEN DecodeOk(Str(acc), i + 1)
    ELSE IF s[i] = "\\"
    THEN IF i + 1 <= Len(s) /\ s[i + 1] \in {"\"", "\\", "/"}
         THEN DecodeString(s, i + 2, Append(acc, s[i + 1]))
         ELSE DecodeFail
    ELSE DecodeString(s, i + 1, Append(acc, s[i]))

\* Index after the last digit of the digit run starting at i.
RECURSIVE DigitsEnd(_, _)
DigitsEnd(s, i) == IF i <= Len(s) /\ s[i] \in Digits THEN DigitsEnd(s, i + 1) ELSE i

RECURSIVE DigitsValue(_, _, _, _)
DigitsValue(s, i, j, acc) ==
    IF i >= j THEN acc ELSE DigitsValue(s, i + 1, j, 10 * acc + DigitVal(s[i]))

HasLiteral(s, i, lit) ==
    /\ i + Len(lit) - 1 <= Len(s)
    /\ SubSeq(s, i, i + Len(lit) - 1) = lit

RECURSIVE DecodeValue(_, _)
RECURSIVE DecodeElements(_, _, _)
RECURSIVE DecodeMembers(_, _, _)
RECURSIVE DecodeMember(_, _, _, _)
RECURSIVE DecodeValueAt(_, _)

\* The elements of an array after "[" or ",": value, then "," or "]".
DecodeElements(s, i, acc) ==
    With(DecodeValue(s, i), LAMBDA r :
    IF ~r.ok THEN DecodeFail
    ELSE With(SkipWs(s, r.pos), LAMBDA j :
         IF j > Len(s) THEN DecodeFail
         ELSE IF s[j] = "," THEN DecodeElements(s, j + 1, Append(acc, r.val))
         ELSE IF s[j] = "]" THEN DecodeOk(List(Append(acc, r.val)), j + 1)
         ELSE DecodeFail))

\* The value of a member after its key, then "," or "}".
\* A repeated key keeps the last value.
DecodeMember(s, acc, key, r) ==
    IF ~r.ok THEN DecodeFail
    ELSE With(SkipWs(s, r.pos), LAMBDA j :
         IF j > Len(s) THEN DecodeFail
         ELSE IF s[j] = ","
         THEN DecodeMembers(s, j + 1, DictSet(acc, key, r.val))
         ELSE IF s[j] = "}" THEN DecodeOk(Dict(DictSet(acc, key, r.val)), j + 1)
         ELSE DecodeFail)

\* The members of an object after "{" or ",": "key" : value, then "," or "}".
DecodeMembers(s, i, acc) ==
    With(SkipWs(s, i), LAMBDA k :
    IF k > Len(s) \/ s[k] # "\"" THEN DecodeFail
    ELSE With(DecodeString(s, k + 1, <<>>), LAMBDA key :
         IF ~key.ok THEN DecodeFail
         ELSE With(SkipWs(s, key.pos), LAMBDA c :
              IF c > Len(s) \/ s[c] # ":" THEN DecodeFail
              ELSE DecodeMember(s, acc, key.val[2], DecodeValue(s, c + 1)))))

\* The value that starts at i, a character that is not a blank.
DecodeValueAt(s, i) ==
    IF i > Len(s) THEN DecodeFail
    ELSE CASE s[i] = "\"" -> DecodeString(s, i + 1, <<>>)
           [] s[i] = "[" ->
                With(SkipWs(s, i + 1), LAMBDA j :
                IF j <= Len(s) /\ s[j] = "]" THEN DecodeOk(EmptyList, j + 1)
                ELSE DecodeElements(s, i + 1, <<>>))
           [] s[i] = "{" ->
                With(SkipWs(s, i + 1), LAMBDA j :
                IF j <= Len(s) /\ s[j] = "}" THEN DecodeOk(EmptyDict, j + 1)
                ELSE DecodeMembers(s, i + 1, <<>>))
           [] s[i] \in Digits ->
                With(DigitsEnd(s, i), LAMBDA j :
                IF s[i] = "0" /\ j > i + 1 THEN DecodeFail
                ELSE DecodeOk(Num(DigitsValue(s, i, j, 0)), j))
           [] s[i] = "n" ->
                IF HasLiteral(s, i, s_null) THEN DecodeOk(None, i + 4) ELSE DecodeFail
           [] s[i] = "t" ->
                IF HasLiteral(s, i, s_true) THEN DecodeOk(Bool(TRUE), i + 4) ELSE DecodeFail
           [] s[i] = "f" ->
                IF HasLiteral(s, i, s_false) THEN DecodeOk(Bool(FALSE), i + 5) ELSE DecodeFail
           [] OTHER -> DecodeFail

DecodeValue(s, i0) == DecodeValueAt(s, SkipWs(s, i0))

\* json.loads(text): the decoded value, or JSONDecodeError when the text is
\* not one JSON value followed only by whitespace.
json_loads(text) ==
    With(DecodeValue(text[2], 1), LAMBDA r :
    IF r.ok /\ SkipWs(text[2], r.pos) = Len(text[2]) + 1
    THEN Return(r.val)
    ELSE Raise("JSONDecodeError"))

(***************************************************************************)
(* Python operations the client applies to decoded values.                 *)
(***************************************************************************)
s_username == <<"u", "s", "e", "r", "n", "a", "m", "e">>
s_password == <<"p", "a", "s", "s", "w", "o", "r", "d">>
s_power == <<"p", "o", "w", "e", "r">>
s_watt == <<"w", "a", "t", "t">>
s_Bearer == <<"B", "e", "a", "r", "e", "r", " ">>
s_application_json ==
    <<"a", "p", "p", "l", "i", "c", "a", "t", "i", "o", "n", "/", "j", "s", "o", "n">>
s_NoneText == <<"N", "o", "n", "e">>
s_TrueText == <<"T", "r", "u", "e">>
s_FalseText == <<"F", "a", "l", "s", "e">>
s_startTime == <<"s", "t", "a", "r", "t", "T", "i", "m", "e">>
s_endTime == <<"e", "n", "d", "T", "i", "m", "e">>
s_interval == <<"i", "n", "t", "e", "r", "v", "a", "l">>

DigitChar(n) ==
    CASE n = 0 -> "0" [] n = 1 -> "1" [] n = 2 -> "2" [] n = 3 -> "3"
      [] n = 4 -> "4" [] n = 5 -> "5" [] n = 6 -> "6" [] n = 7 -> "7"
      [] n = 8 -> "8" [] n = 9 -> "9"

RECURSIVE NumText(_)
NumText(n) ==
    IF n < 10 THEN <<DigitChar(n)>>
    ELSE NumText(n \div 10) \o <<DigitChar(n % 10)>>

\* str(x) as an f-string formats x (str, None, int and bool only).
PyStr(x) ==
    CASE x[1] = "str" -> x[2]
      [] x[1] = "null" -> s_NoneText
      [] x[1] = "num" -> NumText(x[2])
      [] x[1] = "bool" -> IF x[2] THEN s_TrueText ELSE s_FalseText

\* x.get(key): only a dict has the method.
PyGet(x, key) ==
    IF x[1] = "dict" THEN Return(DictGet(x, key, None)) ELSE Raise("AttributeError")

\* x[k] for a str key or an int index k.
Subscript(x, k) ==
    CASE x[1] = "dict" ->
            IF k[1] = "str" /\ k[2] \in DOMAIN x[2] THEN Return(x[2][k[2]])
            ELSE Raise("KeyError")
      [] x[1] = "list" ->
            IF k[1] # "num" THEN Raise("TypeError")
            ELSE IF k[2] < Len(x[2]) THEN Return(x[2][k[2] + 1])
            ELSE Raise("IndexError")
      [] x[1] = "str" ->
            IF k[1] # "num" THEN Raise("TypeError")
            ELSE IF k[2] < Len(x[2]) THEN Return(Chars(x)[k[2] + 1])
            ELSE Raise("IndexError")
      [] OTHER -> Raise("TypeError")

\* len(x)
PyLen(x) ==
    CASE x[1] \in {"str", "list"} -> Return(Num(Len(x[2])))
      [] x[1] = "dict" -> Return(Num(Cardinality(DOMAIN x[2])))
      [] OTHER -> Raise("TypeError")

\* The keys of a dict in one fixed order.
RECURSIVE KeySeq(_)
KeySeq(ks) ==
    IF ks = {} THEN <<>>
    ELSE With(CHOOSE x \in ks : TRUE, LAMBDA k : <<k>> \o KeySeq(ks \ {k}))

\* The items `for item in x` visits.
PyIter(x) ==
    CASE x[1] = "list" -> Return(x)
      [] x[1] = "str" -> Return(List(Chars(x)))
      [] x[1] = "dict" ->
            Return(List([i \in 1..Cardinality(DOMAIN x[2]) |-> Str(KeySeq(DOMAIN x[2])[i])]))
      [] OTHER -> Raise("TypeError")

Lower(c) ==
    CASE c = "A" -> "a" [] c = "B" -> "b" [] c = "C" -> "c" [] c = "D" -> "d"
      [] c = "E" -> "e" [] c = "F" -> "f" [] c = "G" -> "g" [] c = "H" -> "h"
      [] c = "I" -> "i" [] c = "J" -> "j" [] c = "K" -> "k" [] c = "L" -> "l"
      [] c = "M" -> "m" [] c = "N" -> "n" [] c = "O" -> "o" [] c = "P" -> "p"
      [] c = "Q" -> "q" [] c = "R" -> "r" [] c = "S" -> "s" [] c = "T" -> "t"
      [] c = "U" -> "u" [] c = "V" -> "v" [] c = "W" -> "w" [] c = "X" -> "x"
      [] c = "Y" -> "y" [] c = "Z" -> "z"
      [] OTHER -> c

\* key.lower()
PyLower(s) == [i \in 1..Len(s) |-> Lower(s[i])]

\* sub in s
Contains(s, sub) ==
    \E i \in 1..(Len(s) - Len(sub) + 1) : SubSeq(s, i, i + Len(sub) - 1) = sub

\* float(x): a number for an int, a bool or a str of digits; ValueError for
\* another str, TypeError for None, a list or a dict.
Float(n) == <<"float", n>>

PyFloat(x) ==
    CASE x[1] = "num" -> Return(Float(x[2]))
      [] x[1] = "float" -> Return(x)
      [] x[1] = "bool" -> Return(Float(IF x[2] THEN 1 ELSE 0))
      [] x[1] = "str" ->
            IF Len(x[2]) > 0 /\ DigitsEnd(x[2], 1) = Len(x[2]) + 1
            THEN Return(Float(DigitsValue(x[2], 1, Len(x[2]) + 1, 0)))
            ELSE Raise("ValueError")
      [] OTHER -> Raise("TypeError")

\* datetime.isoformat() of a naive datetime <<year, month, day, hour, minute, second>>.
DateTime(parts) == <<"datetime", parts>>

Pad2(n) == IF n < 10 THEN <<"0">> \o NumText(n) ELSE NumText(n)

isoformat(d) ==
    Str(NumText(d[2][1]) \o <<"-">> \o Pad2(d[2][2]) \o <<"-">> \o Pad2(d[2][3]) \o <<"T">>
        \o Pad2(d[2][4]) \o <<":">> \o Pad2(d[2][5]) \o <<":">> \o Pad2(d[2][6]))

\* The truth value of an argument that may also be a datetime (always true).
ArgTruthy(x) == IF x[1] = "datetime" THEN TRUE ELSE Truthy(x)

(***************************************************************************)
(* The client.  `self` is the record of the session fields; a method is an *)
(* operator from self, the arguments and the server's answers to           *)
(* [self, out, reqs]: the fields after the call, its outcome and the       *)
(* requests it issued, in order.                                           *)
(***************************************************************************)
username == Str(<<"u", "s", "e", "r">>)
password == Str(<<"p", "w">>)

\* The f-string of an endpoint: its template and the formatted substitutions.
Endpoint(template, sys_id, dev_sn) ==
    [template |-> template, sys_id |-> sys_id, dev_sn |-> dev_sn]

NoHeaders == [content_type |-> None, authorization |-> None]

Kwargs(json, headers, params) == [json |-> json, headers |-> headers, params |-> params]

NoKwargs == Kwargs(None, NoHeaders, None)

Result(self, out, reqs) == [self |-> self, out |-> out, reqs |-> reqs]

\* Mutant of RequestHeaders: no Authorization header is added.
RequestHeadersBare(self, headers) == headers

\* The headers of a request: the Authorization header is added to those of
\* the call if a token is held.
RequestHeaders(self, headers) ==
    IF Truthy(self.access_token)
    THEN [headers EXCEPT !.authorization = Str(s_Bearer \o PyStr(self.access_token))]
    ELSE headers

\* _make_request: the request sent and the parsed body, or the transport's
\* exception.  resp is the server's answer [status, body].
_make_request(self, method, endpoint, kwargs, resp) ==
    [req |-> [method |-> method, endpoint |-> endpoint,
              headers |-> RequestHeaders(self, kwargs.headers),
              json |-> kwargs.json, params |-> kwargs.params],
     out |-> CASE resp.status = "ok" -> Return(resp.body)
               [] resp.status = "http_error" -> Raise("HTTPError")
               [] resp.status = "conn_error" -> Raise("ConnectionError")]

\* _parse_data_field, lines 71-76, on the data of the response.
DecodeData(data) ==
    IF data[1] = "str"
    THEN With(json_loads(data), LAMBDA dec :
         IF dec.kind = "raise" /\ dec.exc = "JSONDecodeError" THEN Return(data)
         ELSE dec)
    ELSE Return(data)

\* _parse_data_field
_parse_data_field(response) ==
    With(PyGet(response, s_data), LAMBDA got :
    IF got.kind = "raise" THEN got ELSE DecodeData(got.value))

\* A call that sent the request of mr: it ends with an exception of the
\* transport, or with what K makes of the parsed body.
Sent(self, mr, K(_)) ==
    IF mr.out.kind = "raise" THEN Result(self, mr.out, <<mr.req>>)
    ELSE K(mr.out.value)

\* Mutant of login: a token already held is kept.
loginKeepToken(self, resp) ==
    With(_make_request(self, "POST", Endpoint("/openapi/auth/login/password", None, None),
                       Kwargs(Dict((s_username :> username) @@ (s_password :> password)),
                              [NoHeaders EXCEPT !.content_type = Str(s_application_json)],
                              None),
                       resp), LAMBDA mr :
    Sent(self, mr, LAMBDA response :
    With(_parse_data_field(response), LAMBDA pd :
    IF pd.kind = "raise" THEN Result(self, pd, <<mr.req>>)
    ELSE With(Subscript(pd.value, Str(s_accessToken)), LAMBDA tok :
         IF tok.kind = "raise" THEN Result(self, tok, <<mr.req>>)
         ELSE Result([self EXCEPT !.access_token = Or(self.access_token, tok.value)],
                     Return(Or(self.access_token, tok.value)), <<mr.req>>)))))

\* login
login(self, resp) ==
    With(_make_request(self, "POST", Endpoint("/openapi/auth/login/password", None, None),
                       Kwargs(Dict((s_username :> username) @@ (s_password :> password)),
                              [NoHeaders EXCEPT !.content_type = Str(s_application_json)],
                              None),
                       resp), LAMBDA mr :
    Sent(self, mr, LAMBDA response :
    With(_parse_data_field(response), LAMBDA pd :
    IF pd.kind = "raise" THEN Result(self, pd, <<mr.req>>)
    ELSE With(Subscript(pd.value, Str(s_accessToken)), LAMBDA tok :
         IF tok.kind = "raise" THEN Result(self, tok, <<mr.req>>)
         ELSE Result([self EXCEPT !.access_token = tok.value],
                     Return(tok.value), <<mr.req>>)))))

\* Mutant of CacheFirstSystem: caches the identifier of the last element.
CacheLastSystem(self, systems) ==
    IF ~Truthy(systems) THEN [self |-> self, out |-> Return(systems)]
    ELSE With(PyLen(systems), LAMBDA n :
         IF n.kind = "raise" THEN [self |-> self, out |-> n]
         ELSE IF ~(n.value[2] > 0) THEN [self |-> self, out |-> Return(systems)]
         ELSE With(Subscript(systems, Num(n.value[2] - 1)), LAMBDA first :
              IF first.kind = "raise" THEN [self |-> self, out |-> first]
              ELSE With(PyGet(first.value, s_systemId), LAMBDA id :
                   IF id.kind = "raise" THEN [self |-> self, out |-> id]
                   ELSE [self |-> [self EXCEPT !.system_id = id.value],
                         out |-> Return(systems)])))

\* The caching step of get_systems (lines 116-120) on the decoded systems.
CacheFirstSystem(self, systems) ==
    IF ~Truthy(systems) THEN [self |-> self, out |-> Return(systems)]
    ELSE With(PyLen(systems), LAMBDA n :
         IF n.kind = "raise" THEN [self |-> self, out |-> n]
         ELSE IF ~(n.value[2] > 0) THEN [self |-> self, out |-> Return(systems)]
         ELSE With(Subscript(systems, Num(0)), LAMBDA first :
              IF first.kind = "raise" THEN [self |-> self, out |-> first]
              ELSE With(PyGet(first.value, s_systemId), LAMBDA id :
                   IF id.kind = "raise" THEN [self |-> self, out |-> id]
                   ELSE [self |-> [self EXCEPT !.system_id = id.value],
                         out |-> Return(systems)])))

\* Mutant of get_systems: a failure of the caching step clears system_id.
get_systemsClearing(self, resp) ==
    With(_make_request(self, "GET", Endpoint("/openapi/system", None, None),
                       NoKwargs, resp), LAMBDA mr :
    Sent(self, mr, LAMBDA response :
    With(_parse_data_field(response), LAMBDA pd :
    IF pd.kind = "raise" THEN Result(self, pd, <<mr.req>>)
    ELSE With(CacheFirstSystem(self, pd.value), LAMBDA c :
         IF c.out.kind = "raise"
         THEN Result([self EXCEPT !.system_id = None], c.out, <<mr.req>>)
         ELSE Result(c.self, c.out, <<mr.req>>)))))

\* get_systems
get_systems(self, resp) ==
    With(_make_request(self, "GET", Endpoint("/openapi/system", None, None),
                       NoKwargs, resp), LAMBDA mr :
    Sent(self, mr, LAMBDA response :
    With(_parse_data_field(response), LAMBDA pd :
    IF pd.kind = "raise" THEN Result(self, pd, <<mr.req>>)
    ELSE With(CacheFirstSystem(self, pd.value), LAMBDA c :
         Result(c.self, c.out, <<mr.req>>)))))

\* Mutant of DevicesLoop: every inverter overwrites the cached serial number.
RECURSIVE DevicesLoopOverwrite(_, _, _, _)
DevicesLoopOverwrite(self, items, i, devices) ==
    IF i > Len(items) THEN [self |-> self, out |-> Return(List(devices))]
    ELSE With(IF items[i][1] = "str" THEN json_loads(items[i]) ELSE Return(items[i]),
              LAMBDA dec :
         IF dec.kind = "raise" THEN [self |-> self, out |-> dec]
         ELSE With(PyGet(dec.value, s_deviceType), LAMBDA type :
              IF type.kind = "raise" THEN [self |-> self, out |-> type]
              ELSE IF type.value = Str(s_Inverter)
              THEN DevicesLoopOverwrite(
                     [self EXCEPT !.inverter_serial_number =
                                     PyGet(dec.value, s_serialNumber).value],
                     items, i + 1, Append(devices, dec.value))
              ELSE DevicesLoopOverwrite(self, items, i + 1, Append(devices, dec.value))))

\* The loop of get_devices (lines 141-154) from item i on: devices is the
\* list built so far; an exception leaves the loop with self as it is then.
RECURSIVE DevicesLoop(_, _, _, _)
DevicesLoop(self, items, i, devices) ==
    IF i > Len(items) THEN [self |-> self, out |-> Return(List(devices))]
    ELSE With(IF items[i][1] = "str" THEN json_loads(items[i]) ELSE Return(items[i]),
              LAMBDA dec :
         IF dec.kind = "raise" THEN [self |-> self, out |-> dec]
         ELSE With(PyGet(dec.value, s_deviceType), LAMBDA type :
              IF type.kind = "raise" THEN [self |-> self, out |-> type]
              ELSE IF type.value = Str(s_Inverter)
                      /\ ~Truthy(self.inverter_serial_number)
              THEN DevicesLoop(
                     [self EXCEPT !.inverter_serial_number =
                                     PyGet(dec.value, s_serialNumber).value],
                     items, i + 1, Append(devices, dec.value))
              ELSE DevicesLoop(self, items, i + 1, Append(devices, dec.value))))

\* Mutant of ParseDevices: the string elements of the data are left out.
ParseDevicesSkipStrings(self, response, req) ==
    IF response[1] # "dict" THEN Result(self, Raise("AttributeError"), <<req>>)
    ELSE With(PyIter(DictGet(response, s_data, EmptyList)), LAMBDA items :
         IF items.kind = "raise" THEN Result(self, items, <<req>>)
         ELSE With(DevicesLoop(self, SelectSeq(items.value[2], LAMBDA e : e[1] # "str"),
                               1, <<>>), LAMBDA l :
              Result(l.self, l.out, <<req>>)))

\* get_devices, lines 139-154, on the parsed body of the response.
ParseDevices(self, response, req) ==
    IF response[1] # "dict" THEN Result(self, Raise("AttributeError"), <<req>>)
    ELSE With(PyIter(DictGet(response, s_data, EmptyList)), LAMBDA items :
         IF items.kind = "raise" THEN Result(self, items, <<req>>)
         ELSE With(DevicesLoop(self, items.value[2], 1, <<>>), LAMBDA l :
              Result(l.self, l.out, <<req>>)))

\* Mutant of get_devices: the cached system_id comes before the argument.
get_devicesCachedSystem(self, system_id, resp) ==
    With(Or(self.system_id, system_id), LAMBDA sys_id :
    IF ~Truthy(sys_id) THEN Result(self, Raise("ValueError"), <<>>)
    ELSE With(_make_request(self, "GET",
                            Endpoint("/openapi/system/{sys_id}/devices",
                                     Str(PyStr(sys_id)), None),
                            NoKwargs, resp), LAMBDA mr :
         Sent(self, mr, LAMBDA response : ParseDevices(self, response, mr.req))))

\* get_devices
get_devices(self, system_id, resp) ==
    With(Or(system_id, self.system_id), LAMBDA sys_id :
    IF ~Truthy(sys_id) THEN Result(self, Raise("ValueError"), <<>>)
    ELSE With(_make_request(self, "GET",
                            Endpoint("/openapi/system/{sys_id}/devices",
                                     Str(PyStr(sys_id)), None),
                            NoKwargs, resp), LAMBDA mr :
         Sent(self, mr, LAMBDA response : ParseDevices(self, response, mr.req))))

\* Mutant of Unwrapped: a failed request is sent a second time.
UnwrappedRetry(self, mr) ==
    IF mr.out.kind = "raise" THEN Result(self, mr.out, <<mr.req, mr.req>>)
    ELSE Result(self, _parse_data_field(mr.out.value), <<mr.req>>)

\* A getter that sent the request of mr: the unwrapped data of the answer.
Unwrapped(self, mr) ==
    Sent(self, mr, LAMBDA response :
         Result(self, _parse_data_field(response), <<mr.req>>))

\* Mutant of SystemGetter: the request is sent without the check of sys_id.
SystemGetterUnchecked(self, system_id, template, resp) ==
    With(Or(system_id, self.system_id), LAMBDA sys_id :
    Unwrapped(self, _make_request(self, "GET",
                                  Endpoint(template, Str(PyStr(sys_id)), None),
                                  NoKwargs, resp)))

\* The body shared by get_system_summary and get_system_energy_flow.
SystemGetter(self, system_id, template, resp) ==
    With(Or(system_id, self.system_id), LAMBDA sys_id :
    IF ~Truthy(sys_id) THEN Result(self, Raise("ValueError"), <<>>)
    ELSE Unwrapped(self, _make_request(self, "GET",
                                       Endpoint(template, Str(PyStr(sys_id)), None),
                                       NoKwargs, resp)))

\* get_system_summary
get_system_summary(self, system_id, resp) ==
    SystemGetter(self, system_id, "/openapi/systems/{sys_id}/summary", resp)

\* Mutant of get_system_energy_flow: the identifier used is kept as system_id.
get_system_energy_flowCaching(self, system_id, resp) ==
    With(SystemGetter(self, system_id, "/openapi/systems/{sys_id}/energyFlow", resp),
         LAMBDA r : Result([r.self EXCEPT !.system_id = Or(system_id, self.system_id)],
                           r.out, r.reqs))

\* get_system_energy_flow
get_system_energy_flow(self, system_id, resp) ==
    SystemGetter(self, system_id, "/openapi/systems/{sys_id}/energyFlow", resp)

\* Mutant of DeviceGetter: the request is sent without the check of dev_sn.
DeviceGetterUnchecked(self, sys_id, dev_sn, resp) ==
    IF ~Truthy(sys_id) THEN Result(self, Raise("ValueError"), <<>>)
    ELSE Unwrapped(self, _make_request(self, "GET",
                     Endpoint("/openapi/systems/{sys_id}/devices/{dev_sn}/realtimeInfo",
                              Str(PyStr(sys_id)), Str(PyStr(dev_sn))),
                     NoKwargs, resp))

\* get_device_realtime_info, lines 210-217, on the resolved identifiers.
DeviceGetter(self, sys_id, dev_sn, resp) ==
    IF ~Truthy(sys_id) THEN Result(self, Raise("ValueError"), <<>>)
    ELSE IF ~Truthy(dev_sn) THEN Result(self, Raise("ValueError"), <<>>)
    ELSE Unwrapped(self, _make_request(self, "GET",
                     Endpoint("/openapi/systems/{sys_id}/devices/{dev_sn}/realtimeInfo",
                              Str(PyStr(sys_id)), Str(PyStr(dev_sn))),
                     NoKwargs, resp))

\* Mutant of get_device_realtime_info: the cached serial number comes first.
get_device_realtime_infoCachedFirst(self, device_serial_number, system_id, resp) ==
    DeviceGetter(self, Or(system_id, self.system_id),
                 Or(self.inverter_serial_number, device_serial_number), resp)

\* get_device_realtime_info
get_device_realtime_info(self, device_serial_number, system_id, resp) ==
    DeviceGetter(self, Or(system_id, self.system_id),
                 Or(device_serial_number, self.inverter_serial_number), resp)

\* Mutant of Param: the parameter is set whatever the argument is.
ParamAlways(params, arg, key, value) == DictSet(params, key, value)

\* get_system_history, lines 245-251: params with value under key when the
\* argument is true.
Param(params, arg, key, value) ==
    IF ArgTruthy(arg) THEN DictSet(params, key, value) ELSE params

\* get_system_history
get_system_history(self, system_id, start_time, end_time, interval, resp) ==
    With(Or(system_id, self.system_id), LAMBDA sys_id :
    IF ~Truthy(sys_id) THEN Result(self, Raise("ValueError"), <<>>)
    ELSE Unwrapped(self, _make_request(self, "GET",
                     Endpoint("/openapi/systems/{sys_id}/history", Str(PyStr(sys_id)), None),
                     Kwargs(None, NoHeaders,
                            Dict(Param(Param(Param(<<>>,
                                                   start_time, s_startTime,
                                                   IF ArgTruthy(start_time)
                                                   THEN isoformat(start_time) ELSE None),
                                             end_time, s_endTime,
                                             IF ArgTruthy(end_time)
                                             THEN isoformat(end_time) ELSE None),
                                       interval, s_interval, interval))),
                     resp)))

\* Mutant of PowerLoop: the keys are matched without key.lower().
RECURSIVE PowerLoopCaseSensitive(_, _, _)
PowerLoopCaseSensitive(energy_flow, keys, power_flow) ==
    IF keys = <<>> THEN power_flow
    ELSE IF Contains(Head(keys), s_power) \/ Contains(Head(keys), s_watt)
    THEN With(PyFloat(energy_flow[2][Head(keys)]), LAMBDA f :
         PowerLoopCaseSensitive(energy_flow, Tail(keys),
                   DictSet(power_flow, Head(keys),
                           IF f.kind = "return" THEN f.value
                           ELSE energy_flow[2][Head(keys)])))
    ELSE PowerLoopCaseSensitive(energy_flow, Tail(keys), power_flow)

\* The loop of get_current_power_flow (lines 285-290) over the keys left.
RECURSIVE PowerLoop(_, _, _)
PowerLoop(energy_flow, keys, power_flow) ==
    IF keys = <<>> THEN power_flow
    ELSE IF Contains(PyLower(Head(keys)), s_power) \/ Contains(PyLower(Head(keys)), s_watt)
    THEN With(PyFloat(energy_flow[2][Head(keys)]), LAMBDA f :
         PowerLoop(energy_flow, Tail(keys),
                   DictSet(power_flow, Head(keys),
                           IF f.kind = "return" THEN f.value
                           ELSE energy_flow[2][Head(keys)])))
    ELSE PowerLoop(energy_flow, Tail(keys), power_flow)

\* get_current_power_flow
get_current_power_flow(self, system_id, resp) ==
    With(get_system_energy_flow(self, system_id, resp), LAMBDA r :
    IF r.out.kind = "raise" THEN r
    ELSE IF r.out.value[1] # "dict" THEN Result(r.self, Raise("AttributeError"), r.reqs)
    ELSE Result(r.self,
                Return(Dict(PowerLoop(r.out.value, KeySeq(DOMAIN r.out.value[2]), <<>>))),
                r.reqs))

(***************************************************************************)
(* The server.  Its JSON encoder builds the texts it sends; an answer is   *)
(* [status, body]: status "ok" is a 2xx answer whose body is the envelope, *)
(* "http_error" a non-2xx status, "conn_error" a network failure.          *)
(***************************************************************************)
s_code == <<"c", "o", "d", "e">>
s_S1 == <<"S", "1">>
s_S2 == <<"S", "2">>
s_N1 == <<"N", "1">>
s_N2 == <<"N", "2">>
s_N3 == <<"N", "3">>
s_T1 == <<"T", "1">>
s_T2 == <<"T", "2">>
s_oops == <<"o", "o", "p", "s">>
s_systemName == <<"s", "y", "s", "t", "e", "m", "N", "a", "m", "e">>
s_Home == <<"H", "o", "m", "e">>
s_Battery == <<"B", "a", "t", "t", "e", "r", "y">>
s_pvPower == <<"p", "v", "P", "o", "w", "e", "r">>
s_soc == <<"s", "o", "c">>
s_day == <<"d", "a", "y">>
s_gridWATT == <<"g", "r", "i", "d", "W", "A", "T", "T">>
s_batPower == <<"b", "a", "t", "P", "o", "w", "e", "r">>

\* The characters of a str inside a string literal: " and \ are escaped.
RECURSIVE Escape(_)
Escape(s) ==
    IF s = <<>> THEN <<>>
    ELSE (IF Head(s) \in {"\"", "\\"} THEN <<"\\", Head(s)>> ELSE <<Head(s)>>)
         \o Escape(Tail(s))

RECURSIVE Encode(_)
RECURSIVE EncodeItems(_, _)
RECURSIVE EncodeMembers(_, _, _)

EncodeItems(xs, i) ==
    IF i > Len(xs) THEN <<>>
    ELSE (IF i > 1 THEN <<",">> ELSE <<>>) \o Encode(xs[i]) \o EncodeItems(xs, i + 1)

EncodeMembers(f, keys, i) ==
    IF i > Len(keys) THEN <<>>
    ELSE (IF i > 1 THEN <<",">> ELSE <<>>)
         \o <<"\"">> \o Escape(keys[i]) \o <<"\"", ":">> \o Encode(f[keys[i]])
         \o EncodeMembers(f, keys, i + 1)

\* The compact JSON text of a value.
Encode(x) ==
    CASE x[1] = "null" -> s_null
      [] x[1] = "bool" -> IF x[2] THEN s_true ELSE s_false
      [] x[1] = "num" -> NumText(x[2])
      [] x[1] = "str" -> <<"\"">> \o Escape(x[2]) \o <<"\"">>
      [] x[1] = "list" -> <<"[">> \o EncodeItems(x[2], 1) \o <<"]">>
      [] x[1] = "dict" -> <<"{">> \o EncodeMembers(x[2], KeySeq(DOMAIN x[2]), 1) \o <<"}">>

\* A value sent as a JSON-encoded string.
Encoded(x) == Str(Encode(x))

Envelope(code, data) == Dict((s_code :> Num(code)) @@ (s_data :> data))
EnvelopeNoData(code) == Dict(s_code :> Num(code))

Ok(body) == [status |-> "ok", body |-> body]
HttpError == [status |-> "http_error", body |-> None]
ConnError == [status |-> "conn_error", body |-> None]

\* Sequences over S of length at most n.
SeqsUpTo(S, n) == UNION {[1..k -> S] : k \in 0..n}

\* The answers carrying an application status other than 0.
ErrorCodes == {424, 1201}
ErrorData == {None, EmptyList, EmptyStr, Str(s_oops)}
ErrorAnswers ==
    {Ok(Envelope(c, d)) : c \in ErrorCodes, d \in ErrorData}
        \cup {Ok(EnvelopeNoData(c)) : c \in ErrorCodes}

\* What is wrong with every endpoint's data alike.
OddData == {None, EmptyStr, Str(s_oops), Num(7), Num(0), Bool(TRUE)}

Answers(data) == {Ok(Envelope(0, d)) : d \in data} \cup ErrorAnswers \cup {HttpError, ConnError}

\* login
TokenData ==
    {Dict(s_accessToken :> Str(s_T1)), Dict(s_accessToken :> Str(s_T2)),
     Dict(s_accessToken :> None), Dict(s_accessToken :> EmptyStr),
     EmptyDict, Dict(s_code :> Num(0))}
LoginData ==
    TokenData \cup {Encoded(d) : d \in TokenData}
        \cup {Encoded(Encoded(Dict(s_accessToken :> Str(s_T1)))), List(<<Str(s_T1)>>)}
        \cup OddData
LoginAnswers == Answers(LoginData)

\* get_systems
SystemRecords ==
    {Dict(s_systemId :> Str(s_S1)),
     Dict((s_systemId :> Str(s_S2)) @@ (s_systemName :> Str(s_Home))),
     Dict(s_systemName :> Str(s_Home)),
     Dict(s_systemId :> EmptyStr)}
SystemLists == {List(l) : l \in SeqsUpTo(SystemRecords, MaxSystems)}
SystemsData ==
    SystemLists \cup {Encoded(l) : l \in SystemLists}
        \cup {Dict(s_systemId :> Str(s_S1)), List(<<Str(s_S1)>>), List(<<Num(7)>>)}
        \cup OddData
SystemsAnswers == Answers(SystemsData)

\* get_devices
Inverter1 == Dict((s_deviceType :> Str(s_Inverter)) @@ (s_serialNumber :> Str(s_N1)))
Inverter2 == Dict((s_deviceType :> Str(s_Inverter)) @@ (s_serialNumber :> Str(s_N2)))
InverterNoSerial == Dict(s_deviceType :> Str(s_Inverter))
Battery == Dict((s_deviceType :> Str(s_Battery)) @@ (s_serialNumber :> Str(s_N3)))
DeviceElements ==
    {Inverter1, Inverter2, InverterNoSerial, Battery,
     Encoded(Inverter1), Encoded(Inverter2), Str(s_oops), Num(7)}
DeviceLists == {List(l) : l \in SeqsUpTo(DeviceElements, MaxDevices)}
DevicesData ==
    DeviceLists \cup {Encoded(List(<<Inverter1>>)), Inverter1} \cup OddData
DevicesAnswers == Answers(DevicesData) \cup {Ok(EnvelopeNoData(0))}

\* the telemetry getters
Flow == Dict((s_pvPower :> Str(<<"5">>)) @@ (s_soc :> Num(80)))
\* An energy flow with a numeric text, a text that is no number, a number and
\* a key that is no power.
MixedFlow ==
    Dict((s_pvPower :> Str(<<"5">>)) @@ (s_gridWATT :> Str(s_oops))
         @@ (s_batPower :> Num(7)) @@ (s_soc :> Num(80)))
TelemetryData == {Flow, Encoded(Flow), MixedFlow, EmptyDict, List(<<Flow>>)} \cup OddData
TelemetryAnswers == Answers(TelemetryData)

\* initialize: a smaller choice of answers for each of its three requests.
InitLoginAnswers ==
    {Ok(Envelope(0, Encoded(Dict(s_accessToken :> Str(s_T1))))),
     Ok(Envelope(1201, None)), HttpError}
InitSystemsAnswers ==
    {Ok(Envelope(0, List(<<Dict(s_systemId :> Str(s_S1)), Dict(s_systemId :> Str(s_S2))>>))),
     Ok(Envelope(0, List(<<Dict(s_systemName :> Str(s_Home))>>))),
     Ok(Envelope(0, EmptyList)), Ok(Envelope(424, None)),
     Ok(Envelope(0, Num(7))), HttpError}
InitDevicesAnswers ==
    {Ok(Envelope(0, List(<<Battery, Encoded(Inverter2), Inverter1>>))),
     Ok(Envelope(0, List(<<Battery>>))),
     Ok(Envelope(0, List(<<Inverter1, Str(s_oops)>>))),
     Ok(Envelope(1201, None)), HttpError}

\* The arguments callers pass.
SystemIdArgs == {None, EmptyStr, Str(s_S1), Str(s_S2)}
DeviceSerialArgs == {None, EmptyStr, Str(s_N1), Str(s_N2)}
TimeArgs == {None, DateTime(<<2024, 1, 5, 0, 0, 0>>)}
IntervalArgs == {None, EmptyStr, Str(s_day)}

(***************************************************************************)
(* The state: the session fields of the client, the position of the caller *)
(* (pc) and the record of the call in progress or just ended (last).       *)
(* pc is "idle" between two calls, "returned" when a call has ended, and   *)
(* inside initialize the step that comes next.                             *)
(***************************************************************************)
VARIABLES access_token, system_id, inverter_serial_number, pc, last

\* The state of the extraction script (examples/extract_historical_data.py):
\* the files of CACHE_DIR as a function from file name to text, the date
\* datetime.now() makes yesterday, the locals start_date and current_date of
\* main, the dates main has requested in the current run, and the number of
\* runs so far.  Dates are the days of October 2025, 1 to MaxDays.
VARIABLES cache_dir, yesterday, start_date, current_date, requested, run

script_vars == <<cache_dir, yesterday, start_date, current_date, requested, run>>

vars == <<access_token, system_id, inverter_serial_number, pc, last,
          cache_dir, yesterday, start_date, current_date, requested, run>>

Fields == [access_token |-> access_token, system_id |-> system_id,
           inverter_serial_number |-> inverter_serial_number]

NoArgs == [system_id |-> None, device_serial_number |-> None,
           start_time |-> None, end_time |-> None, interval |-> None]

\* __init__
Init ==
    /\ access_token = None
    /\ system_id = None
    /\ inverter_serial_number = None
    /\ pc = "idle"
    /\ last = [op |-> "none", args |-> NoArgs, answers |-> <<>>,
               before |-> [access_token |-> None, system_id |-> None,
                           inverter_serial_number |-> None],
               out |-> Return(None), reqs |-> <<>>]
    /\ cache_dir = <<>>
    /\ yesterday = 1
    /\ start_date = 1
    /\ current_date = 1
    /\ requested = {}
    /\ run = 0

Idle == pc = "idle"

\* The session fields become those of r; a call of the client touches
\* nothing of the script.
Assign(r) ==
    /\ access_token' = r.self.access_token
    /\ system_id' = r.self.system_id
    /\ inverter_serial_number' = r.self.inverter_serial_number
    /\ UNCHANGED script_vars

\* The call op(args), answered by answers, ran to its end r.
Called(op, args, answers, r) ==
    /\ Assign(r)
    /\ pc' = "returned"
    /\ last' = [op |-> op, args |-> args, answers |-> answers, before |-> Fields,
                out |-> r.out, reqs |-> r.reqs]

Login ==
    /\ Idle
    /\ \E a \in LoginAnswers : Called("login", NoArgs, <<a>>, login(Fields, a))

GetSystems ==
    /\ Idle
    /\ \E a \in SystemsAnswers : Called("get_systems", NoArgs, <<a>>, get_systems(Fields, a))

GetDevices ==
    /\ Idle
    /\ \E sid \in SystemIdArgs, a \in DevicesAnswers :
         Called("get_devices", [NoArgs EXCEPT !.system_id = sid], <<a>>,
                get_devices(Fields, sid, a))

GetSystemSummary ==
    /\ Idle
    /\ \E sid \in SystemIdArgs, a \in TelemetryAnswers :
         Called("get_system_summary", [NoArgs EXCEPT !.system_id = sid], <<a>>,
                get_system_summary(Fields, sid, a))

GetSystemEnergyFlow ==
    /\ Idle
    /\ \E sid \in SystemIdArgs, a \in TelemetryAnswers :
         Called("get_system_energy_flow", [NoArgs EXCEPT !.system_id = sid], <<a>>,
                get_system_energy_flow(Fields, sid, a))

GetDeviceRealtimeInfo ==
    /\ Idle
    /\ \E dsn \in DeviceSerialArgs, sid \in SystemIdArgs, a \in TelemetryAnswers :
         Called("get_device_realtime_info",
                [NoArgs EXCEPT !.system_id = sid, !.device_serial_number = dsn], <<a>>,
                get_device_realtime_info(Fields, dsn, sid, a))

GetSystemHistory ==
    /\ Idle
    /\ \E sid \in SystemIdArgs, st \in TimeArgs, et \in TimeArgs, iv \in IntervalArgs,
          a \in TelemetryAnswers :
         Called("get_system_history",
                [NoArgs EXCEPT !.system_id = sid, !.start_time = st,
                               !.end_time = et, !.interval = iv], <<a>>,
                get_system_history(Fields, sid, st, et, iv, a))

GetCurrentPowerFlow ==
    /\ Idle
    /\ \E sid \in SystemIdArgs, a \in TelemetryAnswers :
         Called("get_current_power_flow", [NoArgs EXCEPT !.system_id = sid], <<a>>,
                get_current_power_flow(Fields, sid, a))

\* The client object itself, as initialize returns it.
Self == <<"client", 0>>

\* A step of initialize ran the call that ended as r, answered by a; the
\* exception of a failed step is the outcome of initialize.
InitializeStep(a, r, next) ==
    /\ Assign(r)
    /\ pc' = IF r.out.kind = "raise" THEN "returned" ELSE next
    /\ last' = [last EXCEPT !.answers = Append(@, a), !.reqs = @ \o r.reqs,
                            !.out = IF r.out.kind = "raise" \/ next # "returned"
                                    THEN r.out ELSE Return(Self)]

\* initialize, line 265: self.login()
InitializeLogin ==
    /\ Idle
    /\ \E a \in InitLoginAnswers : \E r \in {login(Fields, a)} :
         /\ Assign(r)
         /\ pc' = IF r.out.kind = "raise" THEN "returned" ELSE "initialize_get_systems"
         /\ last' = [op |-> "initialize", args |-> NoArgs, answers |-> <<a>>,
                     before |-> Fields, out |-> r.out, reqs |-> r.reqs]

\* initialize, line 266: self.get_systems()
InitializeGetSystems ==
    /\ pc = "initialize_get_systems"
    /\ \E a \in InitSystemsAnswers :
         InitializeStep(a, get_systems(Fields, a), "initialize_get_devices")

\* Mutant of InitializeGetDevices: get_devices is called whatever is cached.
InitializeGetDevicesAlways ==
    /\ pc = "initialize_get_devices"
    /\ \E a \in InitDevicesAnswers :
         InitializeStep(a, get_devices(Fields, None, a), "returned")

\* initialize, lines 267-269: self.get_devices() if a system_id is cached,
\* and the return of the client.
InitializeGetDevices ==
    /\ pc = "initialize_get_devices"
    /\ IF Truthy(system_id)
       THEN \E a \in InitDevicesAnswers :
              InitializeStep(a, get_devices(Fields, None, a), "returned")
       ELSE /\ pc' = "returned"
            /\ last' = [last EXCEPT !.out = Return(Self)]
            /\ UNCHANGED <<access_token, system_id, inverter_serial_number>>
            /\ UNCHANGED script_vars

\* The caller takes the outcome of the call and goes on to its next call.
Continue ==
    /\ pc = "returned"
    /\ pc' = "idle"
    /\ last' = [op |-> "none", args |-> NoArgs, answers |-> <<>>, before |-> Fields,
                out |-> Return(None), reqs |-> <<>>]
    /\ UNCHANGED <<access_token, system_id, inverter_serial_number>>
    /\ UNCHANGED script_vars

Next ==
    \/ Login
    \/ GetSystems
    \/ GetDevices
    \/ GetSystemSummary
    \/ GetSystemEnergyFlow
    \/ GetDeviceRealtimeInfo
    \/ GetSystemHistory
    \/ GetCurrentPowerFlow
    \/ InitializeLogin
    \/ InitializeGetSystems
    \/ InitializeGetDevices
    \/ Continue

Spec == Init /\ [][Next]_vars

(***************************************************************************)
(* The extraction script, examples/extract_historical_data.py.  A run of   *)
(* main sets up a client, walks the dates from start_date to yesterday and *)
(* asks the server for the dates it finds no data for in CACHE_DIR.  The   *)
(* monthly files written after the loop are no part of the state.          *)
(***************************************************************************)
Dates == 1..MaxDays

\* datetime(2025, 10, 1): the first day of the range when nothing is cached.
DefaultStartDay == 1

s_itemList == <<"i", "t", "e", "m", "L", "i", "s", "t">>
s_date == <<"d", "a", "t", "e">>
s_level == <<"l", "e", "v", "e", "l">>
s_history_ == <<"_", "h", "i", "s", "t", "o", "r", "y", "_">>
s_dot_json == <<".", "j", "s", "o", "n">>
s_424 == <<"4", "2", "4">>

\* current_date.strftime('%Y-%m-%d') for day d of October 2025.
strftime(d) == <<"2", "0", "2", "5", "-", "1", "0", "-">> \o Pad2(d)

\* get_cache_path: the name of the file in CACHE_DIR.
get_cache_path(sid, date_str) == PyStr(sid) \o s_history_ \o date_str \o s_dot_json

\* Mutant of load_from_cache: no file is ever found.
load_from_cacheMiss(files, sid, date_str) == Return(None)

\* load_from_cache: json.load of the file if it exists, else None.
load_from_cache(files, sid, date_str) ==
    IF get_cache_path(sid, date_str) \in DOMAIN files
    THEN json_loads(Str(files[get_cache_path(sid, date_str)]))
    ELSE Return(None)

\* save_to_cache: the files after json.dump of data into the file of the date.
save_to_cache(files, sid, date_str, data) ==
    (get_cache_path(sid, date_str) :> Encode(data)) @@ files

\* get_all_cached_dates: the dates whose file name is in CACHE_DIR.
get_all_cached_dates(files, sid) ==
    {d \in Dates : get_cache_path(sid, strftime(d)) \in DOMAIN files}

\* cached_dates[0] of the sorted list.
Earliest(dates) == CHOOSE d \in dates : \A e \in dates : d <= e

\* An answer with a non-2xx status code.
HttpStatus(code) == [status |-> "http_error", body |-> None, code |-> code]

\* str(e) of the exception of the transport for answer resp: requests puts
\* the status code and the URL into the text of an HTTPError, and the URL
\* into that of a ConnectionError.
ErrorText(resp, sid, date_str) ==
    (IF resp.status = "http_error" /\ "code" \in DOMAIN resp
     THEN NumText(resp.code) \o <<" ">> ELSE <<>>)
    \o <<"/">> \o PyStr(sid) \o <<"?">> \o date_str

\* A data point of a day.
HistoryPoint == Dict(s_soc :> Num(80))

\* What the server answers to the history request of a day.
HistoryAnswers ==
    {Ok(Envelope(0, List(<<HistoryPoint>>))),
     Ok(Envelope(0, Dict(s_itemList :> List(<<HistoryPoint>>)))),
     Ok(Envelope(0, Encoded(Dict(s_itemList :> List(<<HistoryPoint>>))))),
     Ok(Envelope(0, Dict(s_itemList :> None))),
     Ok(Envelope(0, Dict(s_itemList :> Num(7)))),
     Ok(Envelope(0, None)),
     Ok(Envelope(424, None)), Ok(Envelope(1201, None)), Ok(Envelope(500, None)),
     HttpStatus(424), HttpStatus(500), ConnError}

\* What it answers to the login and the get_systems of a run.
ExtractLoginAnswers ==
    {Ok(Envelope(0, Encoded(Dict(s_accessToken :> Str(s_T1))))), HttpError}
ExtractSystemsAnswers ==
    {Ok(Envelope(0, List(<<Dict(s_systemId :> Str(s_S1))>>))), HttpError}

\* Lines 308-313: the points of the day in the unwrapped data.
DayPoints(history) ==
    IF history[1] = "dict" /\ s_itemList \in DOMAIN history[2] THEN history[2][s_itemList]
    ELSE IF history[1] = "list" THEN history
    ELSE EmptyList

\* all_data_points.extend(x)
Extend(x) == IF x[1] \in {"list", "str", "dict"} THEN Return(None) ELSE Raise("TypeError")

\* What an iteration of the loop leaves: the files, whether the loop is left
\* (break), the exception caught if any, and the requests sent.
Day(files, stop, out, reqs) == [files |-> files, stop |-> stop, out |-> out, reqs |-> reqs]

\* Lines 293-320 on the parsed body of the response.
StoreDay(self, files, date_str, response, req) ==
    With(PyGet(response, s_code), LAMBDA code :
    IF code.kind = "raise" THEN Day(files, FALSE, code, <<req>>)
    ELSE IF code.value = Num(424) THEN Day(files, TRUE, Return(None), <<req>>)
    ELSE IF code.value = Num(1201) THEN Day(files, FALSE, Return(None), <<req>>)
    ELSE IF code.value # Num(0) THEN Day(files, FALSE, Return(None), <<req>>)
    ELSE With(_parse_data_field(response), LAMBDA history :
         IF history.kind = "raise" THEN Day(files, FALSE, history, <<req>>)
         ELSE Day(save_to_cache(files, self.system_id, date_str, DayPoints(history.value)),
                  FALSE, Extend(DayPoints(history.value)), <<req>>)))

\* Lines 284-329: the request for a day that is not cached, answered by resp;
\* an exception whose text contains 424 leaves the loop.
FetchDay(self, files, date_str, resp) ==
    With(_make_request(self, "GET",
                       Endpoint("/openapi/systems/{sys_id}/history",
                                Str(PyStr(self.system_id)), None),
                       Kwargs(None, NoHeaders,
                              Dict((s_date :> Str(date_str)) @@ (s_level :> Str(s_day)))),
                       resp), LAMBDA mr :
    IF mr.out.kind = "raise"
    THEN Day(files, Contains(ErrorText(resp, self.system_id, date_str), s_424),
             mr.out, <<mr.req>>)
    ELSE StoreDay(self, files, date_str, mr.out.value, mr.req))

\* The record of a step of the script.
Step(op, answers, out, reqs) ==
    [op |-> op, args |-> NoArgs, answers |-> answers, before |-> Fields,
     out |-> out, reqs |-> reqs]

\* Lines 225-231: the client of the run after login and get_systems, each
\* answered by one of answers; an exception of either ends main.
Setup(answers) ==
    With(login([access_token |-> None, system_id |-> None,
                inverter_serial_number |-> None], answers[1]), LAMBDA r :
    IF r.out.kind = "raise" THEN r
    ELSE With(get_systems(r.self, answers[2]), LAMBDA g :
         Result(g.self, g.out, r.reqs \o g.reqs)))

\* main, lines 213-267: a run starts, later than the run before, with a new
\* client; it ends at once when login or get_systems raises, and goes into
\* the loop at the earliest cached date otherwise.
ExtractStart ==
    /\ pc \in {"idle", "extract_end"}
    /\ run < MaxRuns
    /\ run' = run + 1
    /\ \E y \in yesterday..MaxDays, a1 \in ExtractLoginAnswers, a2 \in ExtractSystemsAnswers :
       \E r \in {Setup(<<a1, a2>>)} :
         /\ access_token' = r.self.access_token
         /\ system_id' = r.self.system_id
         /\ inverter_serial_number' = r.self.inverter_serial_number
         /\ yesterday' = y
         /\ requested' = {}
         /\ last' = Step("extract_start", <<a1, a2>>, r.out, r.reqs)
         /\ UNCHANGED cache_dir
         /\ IF r.out.kind = "raise"
            THEN /\ pc' = "extract_end"
                 /\ UNCHANGED <<start_date, current_date>>
            ELSE /\ pc' = "extract_loop"
                 /\ start_date' =
                      IF get_all_cached_dates(cache_dir, r.self.system_id) # {}
                      THEN Earliest(get_all_cached_dates(cache_dir, r.self.system_id))
                      ELSE DefaultStartDay
                 /\ current_date' = start_date'

\* Lines 278-281: the day is cached; len(cached_data) is outside the inner
\* try, so its exception ends the run (line 373).
CachedDay(cached_data) ==
    /\ last' = Step("extract_day", <<>>, PyLen(cached_data), <<>>)
    /\ IF PyLen(cached_data).kind = "raise"
       THEN pc' = "extract_end" /\ UNCHANGED current_date
       ELSE pc' = "extract_loop" /\ current_date' = current_date + 1
    /\ UNCHANGED <<cache_dir, requested>>

\* Lines 283-331: the day is requested.
RequestedDay(resp, day) ==
    /\ last' = Step("extract_day", <<resp>>, day.out, day.reqs)
    /\ cache_dir' = day.files
    /\ requested' = requested \cup {current_date}
    /\ IF day.stop
       THEN pc' = "extract_end" /\ UNCHANGED current_date
       ELSE pc' = "extract_loop" /\ current_date' = current_date + 1

\* main, lines 269-331: one iteration of the loop.
ExtractDay ==
    /\ pc = "extract_loop"
    /\ current_date <= yesterday
    /\ \E cached \in {load_from_cache(cache_dir, system_id, strftime(current_date))} :
         IF cached.kind = "raise"
         THEN /\ pc' = "extract_end"
              /\ last' = Step("extract_day", <<>>, cached, <<>>)
              /\ UNCHANGED <<cache_dir, requested, current_date>>
         ELSE IF cached.value # None
         THEN CachedDay(cached.value)
         ELSE \E resp \in HistoryAnswers :
                RequestedDay(resp, FetchDay(Fields, cache_dir, strftime(current_date), resp))
    /\ UNCHANGED <<access_token, system_id, inverter_serial_number,
                   yesterday, start_date, run>>

\* main, lines 269 and 333-381: the loop is over.
ExtractEnd ==
    /\ pc = "extract_loop"
    /\ current_date > yesterday
    /\ pc' = "extract_end"
    /\ last' = Step("extract_end", <<>>, Return(None), <<>>)
    /\ UNCHANGED <<access_token, system_id, inverter_serial_number>>
    /\ UNCHANGED script_vars

NextExtract ==
    \/ ExtractStart
    \/ ExtractDay
    \/ ExtractEnd

SpecExtract == Init /\ [][NextExtract]_vars

(***************************************************************************)
(* Properties.                                                             *)
(***************************************************************************)
\* The operations that need a system identifier.
SystemScopedOps ==
    {"get_devices", "get_system_summary", "get_system_energy_flow",
     "get_device_realtime_info", "get_system_history", "get_current_power_flow"}

\* An answer whose unwrapped data is a non-empty list.
SystemsSeq(a) ==
    /\ a.status = "ok"
    /\ With(_parse_data_field(a.body), LAMBDA pd :
            pd.kind = "return" /\ pd.value[1] = "list" /\ Len(pd.value[2]) > 0)

\* An answer whose raw data is a non-empty list.
DevicesSeq(a) ==
    /\ a.status = "ok"
    /\ With(DictGet(a.body, s_data, EmptyList), LAMBDA d : d[1] = "list" /\ Len(d[2]) > 0)

\* C1: once the cached system_id is non-empty no call makes it None or empty,
\* once the cached inverter_serial_number is non-empty no call makes it None
\* or empty, and either field changes only inside an enumeration call
\* (get_systems, get_devices, also as steps of initialize) whose answer was a
\* non-empty sequence.
C1_CacheNeverCleared ==
    [][/\ Truthy(system_id) => Truthy(system_id')
       /\ Truthy(inverter_serial_number) => Truthy(inverter_serial_number')
       /\ system_id' # system_id =>
            \/ last'.op = "get_systems" /\ SystemsSeq(last'.answers[1])
            \/ last'.op = "initialize" /\ SystemsSeq(last'.answers[2])
       /\ inverter_serial_number' # inverter_serial_number =>
            \/ last'.op = "get_devices" /\ DevicesSeq(last'.answers[1])
            \/ last'.op = "initialize" /\ DevicesSeq(last'.answers[3])]_vars

\* C2: when get_systems returns a non-empty list, the cached system_id is the
\* systemId of its element 0; when it returns an empty list, the cached
\* system_id is the one held before the call.
C2_FirstSystemCached ==
    (last.op = "get_systems" /\ last.out.kind = "return" /\ last.out.value[1] = "list") =>
        IF Len(last.out.value[2]) > 0
        THEN system_id = DictGet(last.out.value[2][1], s_systemId, None)
        ELSE system_id = last.before.system_id

\* get_systems returned two systems with different identifiers while a third
\* value was cached, and the first one is cached now.
C2_Witness ==
    /\ last.op = "get_systems" /\ last.out.kind = "return"
    /\ last.out.value[1] = "list" /\ Len(last.out.value[2]) >= 2
    /\ last.out.value[2][1] = Dict(s_systemId :> Str(s_S1))
    /\ DictGet(last.out.value[2][2], s_systemId, None) = Str(s_S2)
    /\ last.before.system_id = Str(s_S2)
    /\ system_id = Str(s_S1)

\* The devices of type Inverter in a list of decoded devices, in order.
Inverters(devices) == SelectSeq(devices, LAMBDA d : DictGet(d, s_deviceType, None) = Str(s_Inverter))

\* Those of them that carry a non-empty serial number.
SerialInverters(devices) ==
    SelectSeq(Inverters(devices), LAMBDA d : Truthy(DictGet(d, s_serialNumber, None)))

\* C3 as stated: a get_devices call that returns with an inverter in its list
\* leaves the serial number of the first inverter of the list cached when none
\* was cached before, and the cached one when one was.
C3_FirstInverterCached ==
    (last.op = "get_devices" /\ last.out.kind = "return"
       /\ Inverters(last.out.value[2]) # <<>>) =>
        IF Truthy(last.before.inverter_serial_number)
        THEN inverter_serial_number = last.before.inverter_serial_number
        ELSE inverter_serial_number =
               DictGet(Inverters(last.out.value[2])[1], s_serialNumber, None)

\* C3 amended: a non-empty cached inverter_serial_number is never changed by
\* any call; a get_devices call that returns while none is cached leaves the
\* serial number of the first inverter that has a non-empty serial number, and
\* leaves none cached when the list has no such inverter.
C3_FirstSerialCached ==
    [][/\ Truthy(inverter_serial_number) =>
            inverter_serial_number' = inverter_serial_number
       /\ (last'.op = "get_devices" /\ last'.out.kind = "return"
             /\ ~Truthy(inverter_serial_number)) =>
            IF SerialInverters(last'.out.value[2]) # <<>>
            THEN inverter_serial_number' =
                   SerialInverters(last'.out.value[2])[1][2][s_serialNumber]
            ELSE ~Truthy(inverter_serial_number')]_vars

\* get_devices returned an inverter without serial number followed by two
\* inverters with different serial numbers, and the first serial is cached.
C3_Witness ==
    /\ last.op = "get_devices" /\ last.out.kind = "return"
    /\ last.out.value = List(<<InverterNoSerial, Inverter2, Inverter1>>)
    /\ ~Truthy(last.before.inverter_serial_number)
    /\ inverter_serial_number = Str(s_N2)

\* C4: a system-scoped operation called with no system identifier cached and
\* none supplied raises ValueError without issuing a request, and no request
\* of any call carries an empty or None system identifier in its path.
C4_MissingContext ==
    /\ (last.op \in SystemScopedOps /\ ~Truthy(last.before.system_id)
          /\ ~Truthy(last.args.system_id)) =>
         (last.out = Raise("ValueError") /\ last.reqs = <<>>)
    /\ \A i \in 1..Len(last.reqs) :
         last.op \in SystemScopedOps =>
            /\ Truthy(last.reqs[i].endpoint.sys_id)
            /\ last.reqs[i].endpoint.sys_id # Str(s_NoneText)

\* get_current_power_flow was called on an authenticated client that had no
\* system identifier, and raised ValueError.
C4_Witness ==
    /\ last.op = "get_current_power_flow"
    /\ Truthy(last.before.access_token)
    /\ last.before.system_id = None /\ last.args.system_id = None
    /\ last.out = Raise("ValueError") /\ last.reqs = <<>>

\* C5: the system identifier in the path of a system-scoped request is the
\* argument when a (non-empty) one is supplied, and the cached system_id
\* otherwise; with an argument supplied the request is sent whatever is
\* cached (get_device_realtime_info needs a device serial number as well).
C5_ArgumentFirst ==
    last.op \in SystemScopedOps =>
        /\ last.reqs # <<>> =>
             last.reqs[1].endpoint.sys_id =
                IF Truthy(last.args.system_id) THEN last.args.system_id
                ELSE last.before.system_id
        /\ (Truthy(last.args.system_id) /\ last.op # "get_device_realtime_info") =>
             Len(last.reqs) = 1

\* get_system_summary was called with S2 while S1 was cached, and asked for S2.
C5_Witness ==
    /\ last.op = "get_system_summary"
    /\ last.args.system_id = Str(s_S2) /\ last.before.system_id = Str(s_S1)
    /\ Len(last.reqs) = 1 /\ last.reqs[1].endpoint.sys_id = Str(s_S2)

\* C6 as stated: on a client that holds a token and a cached system_id (login
\* and get_systems went well, directly or through initialize), no
\* system-scoped operation called without a system identifier raises the
\* missing-context ValueError.
C6_NoMissingContext ==
    (last.op \in SystemScopedOps /\ last.args.system_id = None
       /\ Truthy(last.before.access_token) /\ Truthy(last.before.system_id)) =>
        last.out # Raise("ValueError")

\* C6 amended: on a client that holds a cached system_id, a system-scoped
\* operation called without a system identifier sends its request for the
\* cached system, except get_device_realtime_info with no device serial number
\* supplied and none cached, which raises ValueError without a request.
C6_ContextCached ==
    (last.op \in SystemScopedOps /\ ~Truthy(last.args.system_id)
       /\ Truthy(last.before.system_id)) =>
        IF /\ last.op = "get_device_realtime_info"
           /\ ~Truthy(last.args.device_serial_number)
           /\ ~Truthy(last.before.inverter_serial_number)
        THEN last.out = Raise("ValueError") /\ last.reqs = <<>>
        ELSE /\ last.out # Raise("ValueError")
             /\ Len(last.reqs) = 1
             /\ last.reqs[1].endpoint.sys_id = last.before.system_id

\* get_device_realtime_info was called without arguments after login,
\* get_systems and get_devices had filled the session, and returned the data
\* of the cached inverter of the cached system.
C6_Witness ==
    /\ last.op = "get_device_realtime_info"
    /\ last.args.system_id = None /\ last.args.device_serial_number = None
    /\ Truthy(last.before.access_token)
    /\ last.before.system_id = Str(s_S1)
    /\ last.before.inverter_serial_number = Str(s_N1)
    /\ last.out = Return(Flow)
    /\ Len(last.reqs) = 1
    /\ last.reqs[1].endpoint.sys_id = Str(s_S1)
    /\ last.reqs[1].endpoint.dev_sn = Str(s_N1)

\* The data of the envelope of answer a, a text decoded once when it is JSON.
DecodedOnce(a) ==
    IF a.body[2][s_data][1] = "str"
    THEN With(json_loads(a.body[2][s_data]), LAMBDA r :
              IF r.kind = "return" THEN r.value ELSE a.body[2][s_data])
    ELSE a.body[2][s_data]

\* Answer a came with a 2xx status and an envelope that has a data field.
HasData(a) == a.status = "ok" /\ a.body[1] = "dict" /\ s_data \in DOMAIN a.body[2]

\* The decoded data of answer a has a token field.
HasTokenField(a) ==
    /\ HasData(a)
    /\ DecodedOnce(a)[1] = "dict"
    /\ s_accessToken \in DOMAIN DecodedOnce(a)[2]

\* C7: when the login request is answered with a 2xx status and the data of
\* the envelope, structured or a string decoded once, contains accessToken t,
\* the session token is t whatever token was held before, and login returns t
\* (the login step of initialize stores t alike).
C7_TokenStored ==
    /\ (last.op = "login" /\ HasTokenField(last.answers[1])) =>
         /\ access_token = DecodedOnce(last.answers[1])[2][s_accessToken]
         /\ last.out = Return(DecodedOnce(last.answers[1])[2][s_accessToken])
         /\ last.reqs[1].json = Dict((s_username :> username) @@ (s_password :> password))
    /\ (last.op = "initialize" /\ HasTokenField(last.answers[1])) =>
         access_token = DecodedOnce(last.answers[1])[2][s_accessToken]

\* login was answered with the text {"accessToken":"T2"} while T1 was held,
\* and stored and returned T2.
C7_Witness ==
    /\ last.op = "login"
    /\ last.before.access_token = Str(s_T1)
    /\ last.answers[1] = Ok(Envelope(0, Encoded(Dict(s_accessToken :> Str(s_T2)))))
    /\ access_token = Str(s_T2)
    /\ last.out = Return(Str(s_T2))

\* C8: a login whose request fails at the transport, or whose decoded data has
\* no token field, raises AuthenticationError and leaves the token held before.
C8_AuthenticationError ==
    (last.op = "login" /\ ~HasTokenField(last.answers[1])) =>
        /\ last.out = Raise("AuthenticationError")
        /\ access_token = last.before.access_token

\* C9: no operation ends with the exception of the secondary decode, and a
\* getter answered with a 2xx status returns the data of the envelope: decoded
\* when it is a JSON text, the raw text when it is another text, as it is when
\* it is structured.
C9_UnwrapNeverRaises ==
    /\ last.out.exc # "JSONDecodeError"
    /\ (/\ last.op \in {"get_system_summary", "get_system_energy_flow",
                        "get_device_realtime_info", "get_system_history"}
        /\ last.reqs # <<>> /\ HasData(last.answers[1])) =>
         last.out = Return(DecodedOnce(last.answers[1]))

\* C10: an operation whose request is answered with a 2xx status and a
\* well-formed envelope of non-zero application code returns normally.
C10_ErrorCodeReturns ==
    (/\ last.op \notin {"none", "initialize"}
     /\ last.reqs # <<>>
     /\ last.answers[1] \in ErrorAnswers) =>
        last.out.kind = "return"

\* The operations that return the unwrapped answer of one request.
EnvelopeOps ==
    {"get_systems", "get_devices", "get_system_summary", "get_system_energy_flow",
     "get_device_realtime_info", "get_system_history"}

\* C11: an operation whose request is answered with a non-zero application
\* code returns the full envelope, status code included.
C11_EnvelopeReturned ==
    (last.op \in EnvelopeOps /\ last.reqs # <<>> /\ last.answers[1] \in ErrorAnswers) =>
        last.out = Return(last.answers[1].body)

\* x is a sequence of records.
RecordList(x) == x[1] = "list" /\ \A i \in 1..Len(x[2]) : x[2][i][1] = "dict"

\* C12: get_systems and get_devices answered with data that is not a sequence
\* of records, and get_current_power_flow answered with data that is not a
\* mapping, raise MalformedResponse; no operation ends with an index, key,
\* attribute or type failure.
C12_MalformedResponse ==
    /\ (/\ last.op \in {"get_systems", "get_devices"}
        /\ last.reqs # <<>> /\ HasData(last.answers[1])
        /\ ~RecordList(DecodedOnce(last.answers[1]))) =>
         last.out = Raise("MalformedResponse")
    /\ (/\ last.op = "get_current_power_flow"
        /\ last.reqs # <<>> /\ HasData(last.answers[1])
        /\ DecodedOnce(last.answers[1])[1] # "dict") =>
         last.out = Raise("MalformedResponse")
    /\ last.out.exc \notin {"IndexError", "KeyError", "AttributeError", "TypeError"}

\* The device objects the server holds.
DeviceRecords == {Inverter1, Inverter2, InverterNoSerial, Battery}

\* The device object an element of the data stands for: the object itself, or
\* the object the server encoded as a JSON string.
Native(e) == IF e[1] = "str" THEN CHOOSE d \in DeviceRecords : Encoded(d) = e ELSE e

NativeList(items) == [i \in 1..Len(items) |-> Native(items[i])]

\* The data of answer a is a list of device objects, each sent as it is or as
\* a JSON string.
MixedDevices(a) ==
    /\ HasData(a)
    /\ a.body[2][s_data][1] = "list"
    /\ \A i \in 1..Len(a.body[2][s_data][2]) :
         \/ a.body[2][s_data][2][i] \in DeviceRecords
         \/ \E d \in DeviceRecords : a.body[2][s_data][2][i] = Encoded(d)

\* C13: get_devices answered with a list of device objects, each sent native
\* or as a JSON string, returns the list of the native objects in the same
\* order, which is also what it returns when every element is sent native.
C13_DecodeTransparent ==
    (last.op = "get_devices" /\ last.reqs # <<>> /\ MixedDevices(last.answers[1])) =>
        /\ last.out = Return(List(NativeList(last.answers[1].body[2][s_data][2])))
        /\ last.out =
             get_devices(last.before, last.args.system_id,
                         Ok(Envelope(0, List(NativeList(last.answers[1].body[2][s_data][2]))))
                        ).out

\* get_devices was answered with a battery, an inverter sent as a JSON string
\* and a native inverter, and returned the three native objects in that order.
C13_Witness ==
    /\ last.op = "get_devices"
    /\ last.answers[1] = Ok(Envelope(0, List(<<Battery, Encoded(Inverter2), Inverter1>>)))
    /\ last.out = Return(List(<<Battery, Inverter2, Inverter1>>))

\* The endpoints of the steps of initialize, in order.
InitializeTemplates ==
    <<"/openapi/auth/login/password", "/openapi/system", "/openapi/system/{sys_id}/devices">>

\* What step n of the initialize call in progress ends with, as the method of
\* that step computes it from the answer the step received.
StepOutcome(n) ==
    CASE n = 1 -> login(last.before, last.answers[1]).out
      [] n = 2 -> get_systems(Fields, last.answers[2]).out
      [] n = 3 -> get_devices([Fields EXCEPT !.inverter_serial_number =
                                               last.before.inverter_serial_number],
                              None, last.answers[3]).out

\* C14: initialize sends its requests in the order login, get_systems,
\* get_devices, one per step; a step is taken only after the steps before it
\* succeeded; get_devices is taken if and only if a system_id is cached after
\* get_systems; a failed step's exception is the outcome of initialize, and
\* when no step fails the outcome is the client itself.
C14_InitializeOrder ==
    last.op = "initialize" =>
        /\ Len(last.answers) \in 1..3
        /\ Len(last.reqs) = Len(last.answers)
        /\ \A i \in 1..Len(last.reqs) :
             last.reqs[i].endpoint.template = InitializeTemplates[i]
        /\ \A i \in 1..(Len(last.answers) - 1) : StepOutcome(i).kind = "return"
        /\ pc = "initialize_get_systems" => Len(last.answers) = 1
        /\ pc = "initialize_get_devices" => Len(last.answers) = 2
        /\ pc = "returned" =>
             /\ Len(last.answers) = 3 => Truthy(system_id)
             /\ (Len(last.answers) = 2 /\ last.out.kind = "return") => ~Truthy(system_id)
             /\ last.out.kind = "return" =>
                  last.out = Return(Self) /\ Len(last.answers) >= 2
             /\ last.out.kind = "raise" => last.out = StepOutcome(Len(last.answers))
        /\ pc # "returned" => StepOutcome(Len(last.answers)).kind = "return"

\* initialize ran its three steps on a new client and returned the client,
\* with the first system and the first inverter cached.
C14_Witness ==
    /\ last.op = "initialize" /\ pc = "returned"
    /\ last.before.access_token = None /\ last.before.system_id = None
    /\ Len(last.reqs) = 3
    /\ last.reqs[3].endpoint.sys_id = Str(s_S1)
    /\ last.out = Return(Self)
    /\ access_token = Str(s_T1) /\ system_id = Str(s_S1)
    /\ inverter_serial_number = Str(s_N2)

\* The Authorization header that goes with token tok: none without a token.
Authorization(tok) == IF Truthy(tok) THEN Str(s_Bearer \o PyStr(tok)) ELSE None

\* The call recorded in last had the identifiers its request needs.
ContextAvailable ==
    \/ last.op = "get_systems"
    \/ /\ last.op \in SystemScopedOps
       /\ Truthy(last.args.system_id) \/ Truthy(last.before.system_id)
       /\ \/ last.op # "get_device_realtime_info"
          \/ Truthy(last.args.device_serial_number)
          \/ Truthy(last.before.inverter_serial_number)

\* C15: an inventory or telemetry operation called without a token sends its
\* request all the same, without Authorization header, and a rejection by the
\* server ends the call with the transport's HTTPError; every request sent
\* while a token is held carries "Bearer " followed by the token held when the
\* request is sent (inside initialize: the token just stored by its login).
C15_NoAuthPrecheck ==
    /\ last.op \notin {"none", "initialize"} =>
         /\ \A i \in 1..Len(last.reqs) :
              last.reqs[i].headers.authorization = Authorization(last.before.access_token)
         /\ (~Truthy(last.before.access_token) /\ ContextAvailable) =>
              Len(last.reqs) = 1
         /\ (last.reqs # <<>> /\ last.answers[1] = HttpError) =>
              last.out = Raise("HTTPError")
    /\ last.op = "initialize" =>
         /\ last.reqs[1].headers.authorization = Authorization(last.before.access_token)
         /\ \A i \in 2..Len(last.reqs) :
              last.reqs[i].headers.authorization = Authorization(access_token)

\* get_system_summary was called for S1 on a client without token: the request
\* went out without Authorization header and the server's rejection came back
\* as HTTPError.
C15_Witness ==
    /\ last.op = "get_system_summary"
    /\ last.before.access_token = None
    /\ last.args.system_id = Str(s_S1)
    /\ Len(last.reqs) = 1
    /\ last.reqs[1].headers.authorization = None
    /\ last.answers[1] = HttpError
    /\ last.out = Raise("HTTPError")

\* An argument the caller supplied: neither left out (None) nor empty.
Supplied(x) == x # None /\ x # EmptyStr

\* C16: the query of get_system_history has a parameter for exactly those of
\* start_time, end_time and interval that the caller supplied; no parameter
\* has a None or empty value; startTime and endTime are the ISO texts of the
\* datetimes and interval is the argument itself.
C16_QueryParams ==
    (last.op = "get_system_history" /\ last.reqs # <<>>) =>
        /\ last.reqs[1].params[1] = "dict"
        /\ DOMAIN last.reqs[1].params[2] \subseteq {s_startTime, s_endTime, s_interval}
        /\ s_startTime \in DOMAIN last.reqs[1].params[2] <=> Supplied(last.args.start_time)
        /\ s_endTime \in DOMAIN last.reqs[1].params[2] <=> Supplied(last.args.end_time)
        /\ s_interval \in DOMAIN last.reqs[1].params[2] <=> Supplied(last.args.interval)
        /\ \A k \in DOMAIN last.reqs[1].params[2] : Supplied(last.reqs[1].params[2][k])
        /\ Supplied(last.args.start_time) =>
             last.reqs[1].params[2][s_startTime] = isoformat(last.args.start_time)
        /\ Supplied(last.args.end_time) =>
             last.reqs[1].params[2][s_endTime] = isoformat(last.args.end_time)
        /\ Supplied(last.args.interval) =>
             last.reqs[1].params[2][s_interval] = last.args.interval

\* get_system_history was called with start and end time and no interval, and
\* its query has exactly startTime and endTime, as ISO texts.
C16_Witness ==
    /\ last.op = "get_system_history"
    /\ last.args.start_time = DateTime(<<2024, 1, 5, 0, 0, 0>>)
    /\ last.args.end_time = DateTime(<<2024, 1, 5, 0, 0, 0>>)
    /\ last.args.interval = None
    /\ Len(last.reqs) = 1
    /\ last.reqs[1].params =
         Dict((s_startTime :> Str(<<"2", "0", "2", "4", "-", "0", "1", "-", "0", "5", "T",
                                    "0", "0", ":", "0", "0", ":", "0", "0">>))
              @@ (s_endTime :> Str(<<"2", "0", "2", "4", "-", "0", "1", "-", "0", "5", "T",
                                     "0", "0", ":", "0", "0", ":", "0", "0">>)))

\* Key k contains "power" or "watt", whatever the case of its letters.
PowerKey(k) ==
    \E i \in 1..Len(k), n \in {Len(s_power), Len(s_watt)} :
        /\ i + n - 1 <= Len(k)
        /\ PyLower(SubSeq(k, i, i + n - 1)) \in {s_power, s_watt}

\* The numeric coercion of v, or v itself when it has none.
Coerced(v) == IF PyFloat(v).kind = "return" THEN PyFloat(v).value ELSE v

\* C17: get_current_power_flow sends at most the one energy-flow request, and
\* when it returns, the result is a mapping whose keys are exactly the keys of
\* the energy-flow data that contain "power" or "watt" in any case, each with
\* the numeric coercion of its value, or the value itself when it has none.
C17_PowerFlowView ==
    last.op = "get_current_power_flow" =>
        /\ Len(last.reqs) <= 1
        /\ \A i \in 1..Len(last.reqs) :
             last.reqs[i].endpoint.template = "/openapi/systems/{sys_id}/energyFlow"
        /\ last.out.kind = "return" =>
             /\ Len(last.reqs) = 1
             /\ HasData(last.answers[1])
             /\ DecodedOnce(last.answers[1])[1] = "dict"
             /\ last.out.value[1] = "dict"
             /\ DOMAIN last.out.value[2] =
                  {k \in DOMAIN DecodedOnce(last.answers[1])[2] : PowerKey(k)}
             /\ \A k \in DOMAIN last.out.value[2] :
                  last.out.value[2][k] = Coerced(DecodedOnce(last.answers[1])[2][k])

\* get_current_power_flow was answered with pvPower "5", gridWATT "oops",
\* batPower 7 and soc 80, and returned pvPower 5.0, gridWATT "oops" and
\* batPower 7.0.
C17_Witness ==
    /\ last.op = "get_current_power_flow"
    /\ last.answers[1] = Ok(Envelope(0, MixedFlow))
    /\ last.out = Return(Dict((s_pvPower :> Float(5)) @@ (s_gridWATT :> Str(s_oops))
                              @@ (s_batPower :> Float(7))))

\* The exception of the transport for an answer that is no 2xx answer.
TransportError(a) ==
    IF a.status = "http_error" THEN Raise("HTTPError") ELSE Raise("ConnectionError")

\* C18: a call of login, get_systems, get_devices or a getter sends at most
\* one request, and initialize at most three, one per step; a request that
\* fails at the transport ends the call at once with the transport's
\* exception, the session fields as they were and no further request.
C18_NoRetry ==
    /\ last.op \notin {"none", "initialize"} =>
         /\ Len(last.reqs) <= 1
         /\ (last.reqs # <<>> /\ last.answers[1].status # "ok") =>
              /\ last.out = TransportError(last.answers[1])
              /\ Fields = last.before
    /\ last.op = "initialize" =>
         /\ Len(last.reqs) <= 3
         /\ Len(last.reqs) <= Len(last.answers)
         /\ \A i \in 1..Len(last.answers) :
              last.answers[i].status # "ok" =>
                 /\ i = Len(last.answers)
                 /\ Len(last.reqs) = i
                 /\ pc = "returned"
                 /\ last.out = TransportError(last.answers[i])

\* get_system_history lost its connection: one request, ConnectionError.
C18_Witness ==
    /\ last.op = "get_system_history"
    /\ last.answers[1] = ConnError
    /\ Len(last.reqs) = 1
    /\ last.out = Raise("ConnectionError")

\* C19: a token that is held stays held whatever is called and answered, and
\* a login request is sent only by a login or initialize the caller made.
C19_StaysAuthenticated ==
    [][/\ Truthy(access_token) => Truthy(access_token')
       /\ \A i \in 1..Len(last'.reqs) :
            last'.reqs[i].endpoint.template = "/openapi/auth/login/password" =>
               last'.op \in {"login", "initialize"}]_vars

\* The getters, which only read the session.
Getters ==
    {"get_system_summary", "get_system_energy_flow", "get_device_realtime_info",
     "get_system_history", "get_current_power_flow"}

\* C20: the token changes only in login (also as the first step of
\* initialize), system_id only in get_systems (also as the second step),
\* inverter_serial_number only in get_devices (also as the third step); the
\* getters leave the three fields as they are whether they return or raise,
\* so no argument of theirs, and no system_id argument of get_devices, is
\* ever cached.
C20_SingleWriter ==
    [][/\ access_token' # access_token =>
            \/ last'.op = "login"
            \/ last'.op = "initialize" /\ pc = "idle"
       /\ system_id' # system_id =>
            \/ last'.op = "get_systems"
            \/ last'.op = "initialize" /\ pc = "initialize_get_systems"
       /\ inverter_serial_number' # inverter_serial_number =>
            \/ last'.op = "get_devices"
            \/ last'.op = "initialize" /\ pc = "initialize_get_devices"
       /\ last'.op \in Getters =>
            /\ access_token' = access_token
            /\ system_id' = system_id
            /\ inverter_serial_number' = inverter_serial_number]_vars

\* get_device_realtime_info returned the data of device N2 of system S2, both
\* given as arguments, while S1 and N1 were cached, and S1 and N1 still are.
C20_Witness ==
    /\ last.op = "get_device_realtime_info"
    /\ last.args.system_id = Str(s_S2) /\ last.args.device_serial_number = Str(s_N2)
    /\ last.before.system_id = Str(s_S1)
    /\ last.before.inverter_serial_number = Str(s_N1)
    /\ last.out.kind = "return"
    /\ last.reqs[1].endpoint.sys_id = Str(s_S2)
    /\ last.reqs[1].endpoint.dev_sn = Str(s_N2)
    /\ system_id = Str(s_S1) /\ inverter_serial_number = Str(s_N1)
    /\ access_token = last.before.access_token

\* C21: the device serial number in the path of get_device_realtime_info is
\* the argument when a (non-empty) one is supplied and the cached
\* inverter_serial_number otherwise; with a system identifier available the
\* call sends its one request when a serial number is available, and raises
\* ValueError without a request when none is supplied or cached.
C21_DeviceSerialResolved ==
    last.op = "get_device_realtime_info" =>
        /\ last.reqs # <<>> =>
             last.reqs[1].endpoint.dev_sn =
                IF Truthy(last.args.device_serial_number)
                THEN last.args.device_serial_number
                ELSE last.before.inverter_serial_number
        /\ (Truthy(last.args.system_id) \/ Truthy(last.before.system_id)) =>
             IF \/ Truthy(last.args.device_serial_number)
                \/ Truthy(last.before.inverter_serial_number)
             THEN Len(last.reqs) = 1 /\ last.out # Raise("ValueError")
             ELSE last.reqs = <<>> /\ last.out = Raise("ValueError")

\* get_device_realtime_info was called with serial N2 while N1 was cached, and
\* asked for device N2 of the cached system.
C21_Witness ==
    /\ last.op = "get_device_realtime_info"
    /\ last.args.device_serial_number = Str(s_N2) /\ last.args.system_id = None
    /\ last.before.inverter_serial_number = Str(s_N1)
    /\ last.before.system_id = Str(s_S1)
    /\ Len(last.reqs) = 1
    /\ last.reqs[1].endpoint.dev_sn = Str(s_N2)
    /\ last.reqs[1].endpoint.sys_id = Str(s_S1)

\* C22 as stated: a call that raises leaves the three session fields as they
\* were before the call.
C22_FailureRestoresState ==
    (last.op # "none" /\ pc = "returned" /\ last.out.kind = "raise") =>
        Fields = last.before

\* The elements get_devices visits in the data of answer a, as they are sent.
RawItems(a) ==
    IF HasData(a) /\ PyIter(a.body[2][s_data]).kind = "return"
    THEN PyIter(a.body[2][s_data]).value[2]
    ELSE <<>>

\* Element e, decoded when it is a JSON string, is an inverter with serial sn.
InverterWithSerial(e, sn) ==
    \/ e[1] = "dict" /\ DictGet(e, s_deviceType, None) = Str(s_Inverter)
                     /\ DictGet(e, s_serialNumber, None) = sn
    \/ /\ e[1] = "str"
       /\ json_loads(e).kind = "return"
       /\ json_loads(e).value[1] = "dict"
       /\ DictGet(json_loads(e).value, s_deviceType, None) = Str(s_Inverter)
       /\ DictGet(json_loads(e).value, s_serialNumber, None) = sn

\* C22 amended: login, get_systems and the getters leave the three fields as
\* they were when they raise; a get_devices call that raises leaves the token
\* and system_id as they were, and inverter_serial_number either as it was or,
\* when none was cached, set to the serial number of an inverter of the answer;
\* an initialize that raises after its login step keeps the token of that
\* login.
C22_FailureKeepsState ==
    (last.op # "none" /\ pc = "returned" /\ last.out.kind = "raise") =>
        /\ last.op \in ({"login", "get_systems"} \cup Getters) => Fields = last.before
        /\ last.op = "get_devices" =>
             /\ access_token = last.before.access_token
             /\ system_id = last.before.system_id
             /\ \/ inverter_serial_number = last.before.inverter_serial_number
                \/ /\ ~Truthy(last.before.inverter_serial_number)
                   /\ Truthy(inverter_serial_number)
                   /\ \E i \in 1..Len(RawItems(last.answers[1])) :
                        InverterWithSerial(RawItems(last.answers[1])[i],
                                           inverter_serial_number)
        /\ (last.op = "initialize" /\ Len(last.answers) >= 2) =>
             /\ HasTokenField(last.answers[1])
             /\ access_token = DecodedOnce(last.answers[1])[2][s_accessToken]

\* get_devices met inverter N1 and then an element that is no JSON: it raised
\* JSONDecodeError, and N1 is cached where nothing was.
C22_Witness ==
    /\ last.op = "get_devices" /\ pc = "returned"
    /\ last.answers[1] = Ok(Envelope(0, List(<<Inverter1, Str(s_oops)>>)))
    /\ last.before.inverter_serial_number = None
    /\ last.out = Raise("JSONDecodeError")
    /\ inverter_serial_number = Str(s_N1)
    /\ system_id = last.before.system_id /\ access_token = last.before.access_token

\* C23 as stated, step by step: a serial number that gets cached while a
\* system_id is cached was enumerated by a request for that system_id, and a
\* step that changes the cached system_id leaves no serial number of the
\* system cached before; so the cached pair always belongs together.
C23_InverterOfCachedSystem ==
    [][/\ (inverter_serial_number' # inverter_serial_number
             /\ Truthy(inverter_serial_number') /\ Truthy(system_id')) =>
            /\ last'.reqs # <<>>
            /\ last'.reqs[Len(last'.reqs)].endpoint.sys_id = system_id'
       /\ (system_id' # system_id /\ Truthy(system_id')) =>
            ~Truthy(inverter_serial_number')]_vars

\* C23 amended: a serial number gets cached only by the devices request of
\* get_devices (or of initialize), sent for the argument when one is supplied
\* and for the cached system_id otherwise, and it is the serial number of an
\* inverter of the answer to that request; a step that changes the cached
\* system_id leaves the cached serial number as it is.
C23_InverterOfRequestedSystem ==
    [][/\ inverter_serial_number' # inverter_serial_number =>
            /\ last'.op \in {"get_devices", "initialize"}
            /\ last'.reqs # <<>>
            /\ last'.reqs[Len(last'.reqs)].endpoint.template =
                 "/openapi/system/{sys_id}/devices"
            /\ last'.reqs[Len(last'.reqs)].endpoint.sys_id =
                 IF Truthy(last'.args.system_id) THEN last'.args.system_id ELSE system_id
            /\ \E i \in 1..Len(RawItems(last'.answers[Len(last'.answers)])) :
                 InverterWithSerial(RawItems(last'.answers[Len(last'.answers)])[i],
                                    inverter_serial_number')
       /\ system_id' # system_id =>
            inverter_serial_number' = inverter_serial_number]_vars

\* get_devices was called for S2 while S1 was cached and no serial number was:
\* the inverter N1 listed for S2 is cached next to system S1.
C23_Witness ==
    /\ last.op = "get_devices"
    /\ last.args.system_id = Str(s_S2)
    /\ last.before.system_id = Str(s_S1)
    /\ last.before.inverter_serial_number = None
    /\ Len(last.reqs) = 1 /\ last.reqs[1].endpoint.sys_id = Str(s_S2)
    /\ last.out = Return(List(<<Inverter1>>))
    /\ system_id = Str(s_S1)
    /\ inverter_serial_number = Str(s_N1)

\* The name of the cache file of date d for the client of the run.
FileOf(d) == get_cache_path(system_id, strftime(d))

\* The same for the client the step leaves.
FileOfNext(d) == get_cache_path(system_id', strftime(d))

\* The dates the step requests.
NewlyRequested == requested' \ requested

\* The step's request was answered with application code c.
AnsweredCode(c) ==
    /\ Len(last'.answers) = 1
    /\ last'.answers[1].status = "ok"
    /\ DictGet(last'.answers[1].body, s_code, None) = Num(c)

\* The step's request failed with an exception whose text contains 424.
Failed424 ==
    /\ Len(last'.answers) = 1
    /\ last'.answers[1].status # "ok"
    /\ Contains(ErrorText(last'.answers[1], system_id, strftime(current_date)), s_424)

\* A cache file is written only for the date of the step, after that date was
\* requested and answered with code 0, and no file is ever removed.
WrittenAfterCodeZero ==
    /\ DOMAIN cache_dir \subseteq DOMAIN cache_dir'
    /\ \A f \in DOMAIN cache_dir' :
         (f \notin DOMAIN cache_dir \/ cache_dir'[f] # cache_dir[f]) =>
            /\ f = FileOf(current_date)
            /\ current_date \in NewlyRequested
            /\ AnsweredCode(0)

\* A request answered with code 424, or failed with 424 in its text, is the
\* last one of the run.
StopsAt424 ==
    (NewlyRequested # {} /\ (AnsweredCode(424) \/ Failed424)) =>
        pc' = "extract_end" /\ requested' = requested \cup {current_date}

\* C24 as stated: a date is requested only when it has no cache file; a cache
\* file is written only after an answer with code 0 for its date; after a 424
\* the run sends no further request; and when the loop of a run is over,
\* every date from start_date to yesterday that has no cache file has been
\* requested by that run.
C24_CacheDrivenExtraction ==
    [][/\ \A d \in NewlyRequested : FileOf(d) \notin DOMAIN cache_dir
       /\ WrittenAfterCodeZero
       /\ StopsAt424
       /\ (pc = "extract_loop" /\ pc' = "extract_end") =>
            \A d \in start_date..yesterday :
               FileOf(d) \notin DOMAIN cache_dir' => d \in requested']_vars

\* C24 amended: a run visits the dates one by one upwards from the earliest
\* cached date (from 1 October when nothing is cached) and requests the date
\* it is at only when that date has no cache file or a file holding null; a
\* cache file is written only after an answer with code 0 for its date; after
\* a 424 the run sends no further request; and when the loop of a run is
\* over, a date from start_date to yesterday that has no cache file and was
\* not requested lies after the date at which the run was stopped.
C24_ResumableExtraction ==
    [][/\ \A d \in NewlyRequested :
            /\ pc = "extract_loop" /\ d = current_date
            /\ FileOf(d) \in DOMAIN cache_dir => cache_dir[FileOf(d)] = s_null
       /\ WrittenAfterCodeZero
       /\ StopsAt424
       /\ (pc = "extract_loop" /\ pc' = "extract_loop") =>
            current_date' = current_date + 1
       /\ (pc # "extract_loop" /\ pc' = "extract_loop") =>
            /\ requested' = {} /\ current_date' = start_date'
            /\ \A d \in Dates : FileOfNext(d) \in DOMAIN cache_dir' => start_date' <= d
            /\ \/ FileOfNext(start_date') \in DOMAIN cache_dir'
               \/ start_date' = DefaultStartDay /\ \A d \in Dates : FileOfNext(d) \notin DOMAIN cache_dir'
       /\ (pc = "extract_loop" /\ pc' = "extract_end") =>
            \A d \in start_date..yesterday :
               (FileOf(d) \notin DOMAIN cache_dir' /\ d \notin requested') =>
                  current_date <= yesterday /\ current_date < d]_vars

\* The second run is over: it found the file of 1 October written by the
\* first run, did not request that date again, requested 2 October and wrote
\* its file.
C24_Witness ==
    /\ run = 2 /\ pc = "extract_end"
    /\ start_date = 1 /\ yesterday >= 2
    /\ FileOf(1) \in DOMAIN cache_dir /\ 1 \notin requested
    /\ 2 \in requested /\ FileOf(2) \in DOMAIN cache_dir
    /\ cache_dir[FileOf(2)] = Encode(List(<<HistoryPoint>>))

====
